---- MODULE Spec2Model ----
(***************************************************************************)
(* JMUD-Client: the transcript (GameState), the relay worker and the       *)
(* channel subscriptions of MUDClient, and the Streamlit script runs of    *)
(* app.py that drive them.                                                 *)
(*                                                                         *)
(* Python strings are sequences of one-character strings, so that split,   *)
(* replace, lower and startswith are computed as the code computes them.   *)
(* None and the empty string are both the empty sequence where the code    *)
(* only tests truthiness.                                                  *)
(***************************************************************************)
EXTENDS Integers, Sequences, FiniteSets, TLC

VARIABLES
    authenticated,     \* st.session_state.authenticated
    active_character,  \* st.session_state.active_character: its id, <<>> when absent
    client,            \* st.session_state.client: index into clients, 0 when absent
    messages,          \* st.session_state.messages, the transcript
    clients,           \* every MUDClient object constructed so far
    threads,           \* every relay thread started so far
    brokerUp,          \* whether the redis broker answers
    nCommands,         \* commands submitted (calls made) so far
    nPublished,        \* messages published on the bus so far
    nOutages,          \* broker outages so far
    hist,              \* history: entries appended since the transcript was last empty
    lastRead,          \* history: what the last get_messages returned
    relayLog,          \* history: relay payloads appended to the transcript
    putLog,            \* history: per client, payloads the workers put on its queue
    lastCmd,           \* history: the last send_command call and how it returned
    lastSub,           \* history: the last subscribe_to_redis call that completed
    touched,           \* history: objects accessed by the foreground and by the workers
    crashed,           \* history: a script run ended in an unhandled exception
    attribute_rolls,   \* st.session_state.attribute_rolls: <<>> when absent, else <<list>>
    roll_count,        \* st.session_state.roll_count: <<>> when absent, else <<n>>
    store,             \* the rows of the relational store's character table
    lastRoll,          \* history: the last Roll Attributes submission
    lastCreate         \* history: the last create_character call and how it returned

creationVars == <<attribute_rolls, roll_count, store, lastRoll, lastCreate>>

vars == <<authenticated, active_character, client, messages, clients, threads,
          brokerUp, nCommands, nPublished, nOutages, hist, lastRead, relayLog,
          putLog, lastCmd, lastSub, touched, crashed, creationVars>>

-----------------------------------------------------------------------------
(* Bounds of the model *)

\* the transcript specification appends up to Cap + MaxOver entries
MaxOver == 3

\* relay threads started in one run of the client session
MaxThreads == 3

\* events of one run of the client session: MUDClient objects constructed,
\* commands submitted, messages published and broker outages, taken together
MaxEvents == 3

(* "Keep only the last 100 messages" *)
Cap == 100

-----------------------------------------------------------------------------
(* Strings *)

None == <<>>

Truthy(s) == s # <<>>

\* the first index of character ch in s, 0 when there is none
RECURSIVE IndexFrom(_, _, _)
IndexFrom(s, ch, i) ==
    IF i > Len(s) THEN 0
    ELSE IF s[i] = ch THEN i
    ELSE IndexFrom(s, ch, i + 1)

\* s.split('\n')[0]
FirstLine(s) ==
    LET i == IndexFrom(s, "\n", 1)
    IN  IF i = 0 THEN s ELSE SubSeq(s, 1, i - 1)

\* s.replace(' ', '_')
ReplaceSpaces(s) == [i \in 1..Len(s) |-> IF s[i] = " " THEN "_" ELSE s[i]]

\* str.lower() on the letters the commands use
LowerChar(ch) ==
    CASE ch = "M" -> "m"
      [] ch = "O" -> "o"
      [] ch = "V" -> "v"
      [] ch = "E" -> "e"
      [] OTHER -> ch

Lower(s) == [i \in 1..Len(s) |-> LowerChar(s[i])]

\* s.startswith(p)
StartsWith(s, p) == Len(s) >= Len(p) /\ SubSeq(s, 1, Len(p)) = p

-----------------------------------------------------------------------------
(* GameState: the transcript *)

Entry(message, message_type) == [message |-> message, type |-> message_type]

\* the "while len(messages) > 100: messages.pop(0)" loop
RECURSIVE Trim(_)
Trim(msgs) == IF Len(msgs) > Cap THEN Trim(Tail(msgs)) ELSE msgs

\* a faulty add_message: appends and never evicts
add_message_nocap(msgs, message, message_type) ==
    Append(msgs, Entry(message, message_type))

\* a faulty add_message: evicts the newest entry instead of the oldest
add_message_popnewest(msgs, message, message_type) ==
    LET grown == Append(msgs, Entry(message, message_type))
    IN  IF Len(grown) > Cap THEN SubSeq(grown, 1, Cap) ELSE grown

\* GameState.add_message, on the list msgs
add_message(msgs, message, message_type) ==
    Trim(Append(msgs, Entry(message, message_type)))

\* GameState.get_messages: the list itself
get_messages(msgs) == msgs

\* a faulty get_messages: the list is emptied once it has been handed out
MessagesAfterReadDrained(msgs) == <<>>

\* the list after get_messages: the method assigns nothing
MessagesAfterRead(msgs) == msgs

\* GameState.clear_messages
clear_messages(msgs) == <<>>

\* history of the appends since the transcript was last empty
HistAfterAdd(h, msgs, message, message_type) ==
    IF msgs = <<>> THEN <<Entry(message, message_type)>>
    ELSE Append(h, Entry(message, message_type))

-----------------------------------------------------------------------------
(* MUDClient *)

\* MUDClient.__init__.  initOK = FALSE is the except branch: redis_client and
\* pubsub are None and _stop_listening and listener_thread were never set.
\* inbox is what the broker has delivered to the pubsub connection and
\* get_message has not read yet; joined remembers how the last join_game on
\* the object returned ("no" when there was none).
NewClient(initOK) ==
    [redis_client |-> initOK,
     player_id |-> None,
     joined |-> "no",
     queue |-> <<>>,
     channels |-> {},
     inbox |-> <<>>,
     listener_thread |-> 0,
     stop_listening |-> FALSE]

\* f"player:{player_id}"
PlayerChannel(player_id) == <<"p", "l", "a", "y", "e", "r", ":">> \o player_id

SystemChannel == <<"s", "y", "s", "t", "e", "m">>

RoomPrefix == <<"r", "o", "o", "m", ":">>

\* a faulty room channel: the room name as it is, spaces kept
RoomChannelRaw(current_room) == RoomPrefix \o current_room

\* f"room:{current_room.replace(' ', '_')}"
RoomChannel(current_room) == RoomPrefix \o ReplaceSpaces(current_room)

IsRoomChannel(ch) == StartsWith(ch, RoomPrefix)

\* an optional argument: <<>> when it is left out (None), <<v>> when v is passed
NotGiven == <<>>

Given(v) == <<v>>

\* The part of the program state the foreground handlers work on, so that a
\* handler is one operator and a script run composes them.  raised is set when
\* the call ended in an exception; fg collects the objects the call accessed;
\* sub describes the subscribe_to_redis call made in this step, if any;
\* requests collects the requests the step sent to the game server.
World ==
    [clients |-> clients, threads |-> threads, messages |-> messages,
     hist |-> hist, relayLog |-> relayLog, fg |-> touched.fg,
     sub |-> [called |-> FALSE], raised |-> FALSE, requests |-> {}]

Request(w, name) == [w EXCEPT !.requests = @ \cup {name}]

Touch(w, c, objs) == [w EXCEPT !.fg = @ \cup {<<c, o>> : o \in objs}]

\* threading.Thread(target=self.listen_to_redis, daemon=True), started.  pc is
\* where the thread stands in the loop of listen_to_redis: "check" before the
\* test of the stop flag, "get" before get_message.  failed is set when the
\* thread ended in the except branch; late counts the get_message calls it
\* made with the stop flag already set.
NewThread(c) ==
    [client |-> c, alive |-> TRUE, pc |-> "check", failed |-> FALSE, late |-> 0]

\* threading.Thread.is_alive on the handle h (0 is None)
is_alive(ths, h) == h # 0 /\ ths[h].alive

\* a faulty start_listener_thread: starts a thread without looking at the handle
start_listener_thread_nocheck(w, c) ==
    IF ~w.clients[c].redis_client
    THEN [w EXCEPT !.raised = TRUE]
    ELSE [Touch(w, c, {"listener_thread", "_stop_listening"}) EXCEPT
             !.threads = Append(@, NewThread(c)),
             !.clients[c].stop_listening = FALSE,
             !.clients[c].listener_thread = Len(w.threads) + 1]

\* MUDClient.start_listener_thread.  On a client whose __init__ failed the
\* attribute listener_thread does not exist and the call raises.
start_listener_thread(w, c) ==
    IF ~w.clients[c].redis_client
    THEN [w EXCEPT !.raised = TRUE]
    ELSE IF w.clients[c].listener_thread = 0
            \/ ~is_alive(w.threads, w.clients[c].listener_thread)
    THEN [Touch(w, c, {"listener_thread", "_stop_listening"}) EXCEPT
             !.threads = Append(@, NewThread(c)),
             !.clients[c].stop_listening = FALSE,
             !.clients[c].listener_thread = Len(w.threads) + 1]
    ELSE Touch(w, c, {"listener_thread"})

Ack(kind) == [type |-> kind, channel |-> <<>>, data |-> <<>>, id |-> 0]

\* pubsub.unsubscribe(): every channel is dropped; the broker acknowledges
pubsub_unsubscribe(cl) ==
    [cl EXCEPT !.channels = {}, !.inbox = Append(@, Ack("unsubscribe"))]

\* pubsub.subscribe(*channels): the channels are added; the broker acknowledges
pubsub_subscribe(cl, channels) ==
    [cl EXCEPT !.channels = @ \cup channels,
               !.inbox = Append(@, Ack("subscribe"))]

\* the room subscribe_to_redis settles on: the argument when one is passed,
\* else roomName of the player-state lookup when it answers 200, else None
ResolveRoom(current_room, lookup) ==
    IF current_room = NotGiven
    THEN IF lookup.status = 200 THEN lookup.roomName ELSE None
    ELSE current_room[1]

\* a faulty channel list: with a room, the room's channel alone
ChannelListRoomOnly(player_id, room) ==
    IF Truthy(room) THEN {RoomChannel(room)}
    ELSE {PlayerChannel(player_id), SystemChannel}

\* the list "channels" subscribe_to_redis builds
ChannelList(player_id, room) ==
    {PlayerChannel(player_id), SystemChannel}
        \cup (IF Truthy(room) THEN {RoomChannel(room)} ELSE {})

\* what is remembered of the call before this one
NoPrev == [called |-> FALSE]

\* what is remembered of a subscribe_to_redis call: its arguments, the room it
\* settled on, whether it completed, whether the broker answered (up), and
\* (after, live) the subscription set and the number of live workers of the
\* client when it returned
SubInfo(c, player_id, room, completed) ==
    [called |-> TRUE, client |-> c, player_id |-> player_id, room |-> room,
     room_channel |-> IF Truthy(room) THEN RoomChannel(room) ELSE <<>>,
     completed |-> completed, up |-> FALSE, after |-> {}, live |-> 0,
     prev |-> NoPrev]

LiveWorkers(ths, c) ==
    Cardinality({t \in 1..Len(ths) : ths[t].client = c /\ ths[t].alive})

Observed(w, c, up) ==
    [w EXCEPT !.sub.up = up,
              !.sub.after = w.clients[c].channels,
              !.sub.live = LiveWorkers(w.threads, c)]

\* requests.get(f"{base_url}/game/characters/get/{player_id}"), sent when no
\* room is passed in
LookupRequest(w, current_room) ==
    IF current_room = NotGiven
    THEN Request(w, "GET /game/characters/get")
    ELSE w

\* a faulty subscribe_to_redis: subscribes without unsubscribing first
subscribe_to_redis_merge(w, c, player_id, current_room, lookup, up) ==
    LET room == ResolveRoom(current_room, lookup)
        channels == ChannelList(player_id, room)
        w1 == Touch(w, c, {"pubsub"})
    IN  IF ~w.clients[c].redis_client THEN w
        ELSE IF ~up
        THEN [w1 EXCEPT !.raised = TRUE,
                        !.sub = SubInfo(c, player_id, room, FALSE)]
        ELSE start_listener_thread(
                 [w1 EXCEPT !.clients[c] = pubsub_subscribe(@, channels),
                            !.sub = SubInfo(c, player_id, room, TRUE)], c)

\* a faulty subscribe_to_redis: the unsubscribe takes effect after the
\* subscribe, so a channel held before the call is gone after it
subscribe_to_redis_late_unsubscribe(w, c, player_id, current_room, lookup, up) ==
    LET room == ResolveRoom(current_room, lookup)
        channels == ChannelList(player_id, room)
        w1 == Touch(LookupRequest(w, current_room), c, {"pubsub"})
        cl == w.clients[c]
        held == cl.channels
        dropped == IF cl.channels # {} THEN pubsub_unsubscribe(cl) ELSE cl
    IN  IF ~cl.redis_client THEN w
        ELSE IF ~up
        THEN Observed([w1 EXCEPT !.raised = TRUE,
                                 !.sub = SubInfo(c, player_id, room, FALSE)], c, up)
        ELSE Observed(start_listener_thread(
                 [w1 EXCEPT !.clients[c] = pubsub_subscribe(dropped, channels \ held),
                            !.sub = SubInfo(c, player_id, room, TRUE)], c), c, up)

\* a faulty subscribe_to_redis: a room that cannot be determined fails the call
subscribe_to_redis_strict(w, c, player_id, current_room, lookup, up) ==
    LET room == ResolveRoom(current_room, lookup)
        channels == ChannelList(player_id, room)
        w1 == Touch(LookupRequest(w, current_room), c, {"pubsub"})
        cl == w.clients[c]
        dropped == IF cl.channels # {} THEN pubsub_unsubscribe(cl) ELSE cl
    IN  IF ~cl.redis_client THEN w
        ELSE IF ~up \/ ~Truthy(room)
        THEN Observed([w1 EXCEPT !.raised = TRUE,
                                 !.sub = SubInfo(c, player_id, room, FALSE)], c, up)
        ELSE Observed(start_listener_thread(
                 [w1 EXCEPT !.clients[c] = pubsub_subscribe(dropped, channels),
                            !.sub = SubInfo(c, player_id, room, TRUE)], c), c, up)

\* MUDClient.subscribe_to_redis.  up is whether the broker answers: when it
\* does not, the first pubsub command raises and the subscription is as before.
\* pubsub.patterns is always empty: nothing ever subscribes to a pattern.
subscribe_to_redis(w, c, player_id, current_room, lookup, up) ==
    LET room == ResolveRoom(current_room, lookup)
        channels == ChannelList(player_id, room)
        w1 == Touch(LookupRequest(w, current_room), c, {"pubsub"})
        cl == w.clients[c]
        dropped == IF cl.channels # {} THEN pubsub_unsubscribe(cl) ELSE cl
    IN  IF ~cl.redis_client THEN w
        ELSE IF ~up
        THEN Observed([w1 EXCEPT !.raised = TRUE,
                                 !.sub = SubInfo(c, player_id, room, FALSE)], c, up)
        ELSE Observed(start_listener_thread(
                 [w1 EXCEPT !.clients[c] = pubsub_subscribe(dropped, channels),
                            !.sub = SubInfo(c, player_id, room, TRUE)], c), c, up)

-----------------------------------------------------------------------------
(* What the game server and the broker may answer *)

\* the character the user may select; join_game joins with its id
Characters == {<<"7">>}

\* GET /game/characters/get/{id} inside subscribe_to_redis: 200 with a
\* roomName, 200 without one, a non-200 status, and (status 0) an exception
Lookups ==
    {[status |-> 200, roomName |-> <<"B", "a", "y">>],
     [status |-> 200, roomName |-> None],
     [status |-> 404, roomName |-> None],
     [status |-> 0, roomName |-> None]}

\* how the requests of join_game end: "fail" is every return before the join
\* response is read as 200 (an exception, a failed character creation, a
\* non-200 join); "badjson" is a 200 whose body does not parse; "nomessage"
\* is a 200 whose body has no "message"; "ok" is a 200 with a message
JoinResps == {"fail", "badjson", "nomessage", "ok"}

Welcome ==
    <<"W", "e", "l", "c", "o", "m", "e">>

JoinError ==
    <<"E", "r", "r", "o", "r", " ", "j", "o", "i", "n", "i", "n", "g", " ",
      "g", "a", "m", "e">>

EngineRoomMsg ==
    <<"E", "n", "g", "i", "n", "e", " ", "R", "o", "o", "m", "\n", "Y",
      "o", "u", " ", "a", "r", "r", "i", "v", "e", ".">>

BayMsg ==
    <<"B", "a", "y">>

NoWayMsg ==
    <<"N", "o", " ", "w", "a", "y">>

BlankLineMsg ==
    <<"\n", "x">>

OkMsg ==
    <<"o", "k">>

NoiseMsg ==
    <<"n", "o", "i", "s", "e">>

BoomMsg ==
    <<"b", "o", "o", "m">>

RawMsg ==
    <<"r", "a", "w">>

NotConnectedMsg ==
    <<"N", "o", "t", " ", "c", "o", "n", "n", "e", "c", "t", "e", "d", " ",
      "t", "o", " ", "g", "a", "m", "e">>

CommandFailedPrefix ==
    <<"C", "o", "m", "m", "a", "n", "d", " ", "f", "a", "i", "l", "e", "d",
      ":", " ">>

ErrorSendingPrefix ==
    <<"E", "r", "r", "o", "r", " ", "s", "e", "n", "d", "i", "n", "g", " ",
      "c", "o", "m", "m", "a", "n", "d", ":", " ">>

UnknownErrorMsg ==
    <<"U", "n", "k", "n", "o", "w", "n", " ", "e", "r", "r", "o", "r", " ",
      "o", "c", "c", "u", "r", "r", "e", "d">>

\* a 200 answer of POST /game/command carrying a result envelope
Result(success, message, privateMessage, roomMessage) ==
    [status |-> 200, hasResult |-> TRUE, success |-> success,
     message |-> message, privateMessage |-> privateMessage,
     roomMessage |-> roomMessage, json |-> TRUE, error |-> NotGiven,
     text |-> RawMsg]

\* an answer without a result envelope: a 200 with another body, a non-200
\* status (json: the body parses; error: its "error" field when it has one),
\* and (status 0) an exception of requests.post
Plain(status, json, error) ==
    [status |-> status, hasResult |-> FALSE, success |-> FALSE,
     message |-> <<>>, privateMessage |-> <<>>, roomMessage |-> <<>>,
     json |-> json, error |-> error, text |-> RawMsg]

Responses ==
    {Result(TRUE, <<>>, EngineRoomMsg, <<>>),
     Result(TRUE, <<>>, BayMsg, NoiseMsg),
     Result(FALSE, <<>>, NoWayMsg, <<>>),
     Result(TRUE, OkMsg, <<>>, <<>>),
     Result(TRUE, <<>>, BlankLineMsg, <<>>),
     Plain(200, TRUE, NotGiven),
     Plain(500, TRUE, Given(BoomMsg)),
     Plain(500, TRUE, NotGiven),
     Plain(500, FALSE, NotGiven),
     Plain(0, FALSE, NotGiven)}

\* the commands the user may type.  None of them is "inventory", "equipment",
\* "equip ..." or "unequip ...", whose extra formatting and equipment update
\* in handle_command are therefore not part of the model.
Commands ==
    {<<"M", "o", "v", "e", " ", "n">>,
     <<"m", "o", "v", "e">>,
     <<"l", "o", "o", "k">>}

MovePrefix == <<"m", "o", "v", "e", " ">>

\* how CharacterService.update_location ends; send_command only prints it.
\* These are the outcomes in a session: the script has constructed a
\* CharacterService from the same environment (app.py line 161) before any
\* command can be submitted.
DbOutcomes == {"updated", "failed"}

\* the outcomes for a MUDClient used on its own: CharacterService(base_url)
\* at line 192 may raise as well (create_client rejects the environment's
\* SUPABASE_URL or SUPABASE_KEY)
ServiceOutcomes == DbOutcomes \cup {"unavailable"}

\* what a publisher may send: a payload and an empty payload
Payloads == {<<"x">>, <<>>}

-----------------------------------------------------------------------------
(* MUDClient.join_game and MUDClient.send_command *)

Returned(w, ok, result) == [w |-> w, ok |-> ok, result |-> result]

\* MUDClient.join_game from the join response on (lines 142-166); every
\* earlier return is joinResp = "fail".  An exception inside the try is caught
\* and the call returns False with what was already done left in place.
join_game(w, c, player_id, joinResp, lookup, up) ==
    LET w1 == [w EXCEPT !.clients[c].player_id = player_id]
        w2 == IF w1.clients[c].redis_client
              THEN subscribe_to_redis(w1, c, player_id, NotGiven, lookup, up)
              ELSE w1
        failed(v) == [v EXCEPT !.clients[c].joined = "failed", !.raised = FALSE]
    IN  IF joinResp \in {"fail", "badjson"} THEN Returned(failed(w), FALSE, JoinError)
        ELSE IF w2.raised THEN Returned(failed(w2), FALSE, JoinError)
        ELSE IF joinResp = "nomessage" THEN Returned(failed(w2), FALSE, JoinError)
        ELSE Returned([w2 EXCEPT !.clients[c].joined = "ok"], TRUE, Welcome)

\* the dict send_command returns
Fields(success, message, privateMessage, roomMessage) ==
    [success |-> success, message |-> message,
     privateMessage |-> privateMessage, roomMessage |-> roomMessage]

Failure(message) == Fields(FALSE, message, <<>>, <<>>)

\* command.lower().startswith("move ") and 'result' in result
IsMovement(command, resp) ==
    StartsWith(Lower(command), MovePrefix) /\ resp.hasResult

\* lines 184-199 of send_command: the room change of a movement command.
\* An exception in it is caught and printed: when the CharacterService
\* constructor raises (line 192), lines 193-197 are skipped.  What
\* update_location returns is only printed (lines 193-195).
RoomChange(w, c, command, resp, db, up) ==
    LET new_room == FirstLine(resp.privateMessage)
        w1 == subscribe_to_redis(w, c, w.clients[c].player_id,
                                 Given(new_room), [status |-> 0, roomName |-> None], up)
    IN  IF IsMovement(command, resp) /\ Truthy(resp.privateMessage)
        THEN IF db = "unavailable" THEN w ELSE [w1 EXCEPT !.raised = FALSE]
        ELSE w

\* a faulty error message: the raw text even when the body has an "error" field
ErrorMessageRaw(resp) == CommandFailedPrefix \o resp.text

\* the message of a non-200 answer: the body's "error" field when the body
\* parses (whatever the field holds), else "Command failed: " and the text
ErrorMessage(resp) ==
    IF resp.json /\ resp.error # NotGiven
    THEN resp.error[1]
    ELSE CommandFailedPrefix \o resp.text

\* a faulty send_command: the request is sent whether or not a player id is set
send_command_nocheck(w, c, command, resp, db, up) ==
    LET posted == Request(w, "POST /game/command")
    IN  IF resp.status = 0
        THEN Returned(posted, FALSE, Failure(ErrorSendingPrefix \o resp.text))
        ELSE IF resp.status = 200
        THEN Returned(RoomChange(posted, c, command, resp, db, up), TRUE,
                      IF resp.hasResult
                      THEN Fields(resp.success, resp.message,
                                  resp.privateMessage, resp.roomMessage)
                      ELSE Fields(FALSE, <<>>, <<>>, <<>>))
        ELSE Returned(posted, FALSE, Failure(ErrorMessage(resp)))

\* MUDClient.send_command
send_command(w, c, command, resp, db, up) ==
    IF ~Truthy(w.clients[c].player_id)
    THEN Returned(w, FALSE, Failure(NotConnectedMsg))
    ELSE LET posted == Request(w, "POST /game/command")
         IN  IF resp.status = 0
             THEN Returned(posted, FALSE, Failure(ErrorSendingPrefix \o resp.text))
             ELSE IF resp.status = 200
             THEN Returned(RoomChange(posted, c, command, resp, db, up), TRUE,
                           IF resp.hasResult
                           THEN Fields(resp.success, resp.message,
                                       resp.privateMessage, resp.roomMessage)
                           ELSE Fields(FALSE, <<>>, <<>>, <<>>))
             ELSE Returned(posted, FALSE, Failure(ErrorMessage(resp)))

-----------------------------------------------------------------------------
(* app.py: handle_command and the script run of render_game_interface *)

\* st.session_state.game_state.add_message
AddMsg(w, message, message_type) ==
    [w EXCEPT !.messages = add_message(@, message, message_type),
              !.hist = HistAfterAdd(w.hist, w.messages, message, message_type)]

AddIf(w, cond, message, message_type) ==
    IF cond THEN AddMsg(w, message, message_type) ELSE w

\* a faulty handle_command: a failure is shown as a system entry, and the
\* private message of the result after it
ShowResultUncategorized(r) ==
    AddIf(AddMsg(r.w, r.result.message, "system"),
          Truthy(r.result.privateMessage), r.result.privateMessage, "private")

\* handle_command once send_command has returned r (lines 74-111)
ShowResult(r) ==
    IF r.ok
    THEN AddIf(AddIf(AddIf(r.w,
                 Truthy(r.result.privateMessage), r.result.privateMessage, "private"),
                 Truthy(r.result.roomMessage), r.result.roomMessage, "room"),
                 Truthy(r.result.message), r.result.message, "system")
    ELSE AddMsg(r.w, r.result.message, "error")

\* handle_command, the on_change callback of the command box
handle_command(w, c, command, resp, db, up) ==
    IF Truthy(command) /\ c # 0
    THEN ShowResult(send_command(w, c, command, resp, db, up))
    ELSE w

\* the relay entry the consumer appends, with the channel it was published on,
\* its publication number and the subscription set at the time of the append
Relayed(w, c, item) ==
    [via |-> c, channel |-> item.channel, id |-> item.id, data |-> item.data,
     subsAt |-> w.clients[c].channels]

\* a faulty consumer: reads the head of the queue and leaves it there
TakeFromQueuePeek(w, c) ==
    LET item == Head(w.clients[c].queue)
        w1 == Touch(w, c, {"_redis_queue"})
    IN  IF w.clients[c].queue = <<>> THEN w1
        ELSE IF Truthy(item.data)
        THEN [AddMsg(w1, item.data, "system") EXCEPT
                 !.relayLog = Append(@, Relayed(w, c, item))]
        ELSE w1

\* lines 219-225: _redis_queue.get_nowait() and, for a truthy payload,
\* add_message(msg, "system"); queue.Empty is passed over
TakeFromQueue(w, c) ==
    LET item == Head(w.clients[c].queue)
        w1 == Touch(w, c, {"_redis_queue"})
        w2 == [w1 EXCEPT !.clients[c].queue = Tail(@)]
    IN  IF w.clients[c].queue = <<>> THEN w1
        ELSE IF Truthy(item.data)
        THEN [AddMsg(w2, item.data, "system") EXCEPT
                 !.relayLog = Append(@, Relayed(w, c, item))]
        ELSE w2

\* lines 198-225 for the session's client c: start_listener_thread, then one
\* message off the queue.  When start_listener_thread raises, the run ends
\* there with the exception unhandled (raised stays set).
RunWithClient(w, c) ==
    LET w1 == start_listener_thread(w, c)
    IN  IF w1.raised THEN w1 ELSE TakeFromQueue(w1, c)

-----------------------------------------------------------------------------
(* The transcript on its own: add_message, get_messages and clear_messages *)
(* called in any order.  The k-th entry appended since the transcript was  *)
(* last empty has the text str(k) and the category Types[k mod 4].         *)

Types == <<"system", "private", "room", "error">>

Digit(d) ==
    CASE d = 0 -> "0" [] d = 1 -> "1" [] d = 2 -> "2" [] d = 3 -> "3"
      [] d = 4 -> "4" [] d = 5 -> "5" [] d = 6 -> "6" [] d = 7 -> "7"
      [] d = 8 -> "8" [] OTHER -> "9"

\* str(k) for k >= 0
RECURSIVE DecimalStr(_)
DecimalStr(k) ==
    IF k < 10 THEN <<Digit(k)>>
    ELSE Append(DecimalStr(k \div 10), Digit(k % 10))

\* what the last get_messages returned (value), if nothing was appended or
\* cleared since (valid), and what the get_messages before it returned (prior,
\* <<>> when the last one was the first since then)
NoRead == [valid |-> FALSE, value |-> <<>>, prior |-> <<>>]

NoCmd == [called |-> FALSE]

NoSub == [called |-> FALSE]

NoRoll == [called |-> FALSE]

NoCreate == [called |-> FALSE]

\* no character creation form has been rendered, and the character table
\* is empty
CreationInit ==
    /\ attribute_rolls = NotGiven
    /\ roll_count = NotGiven
    /\ store = {}
    /\ lastRoll = NoRoll
    /\ lastCreate = NoCreate

InitCommon ==
    /\ messages = <<>>
    /\ clients = <<>>
    /\ threads = <<>>
    /\ client = 0
    /\ active_character = None
    /\ brokerUp = TRUE
    /\ nCommands = 0
    /\ nPublished = 0
    /\ nOutages = 0
    /\ hist = <<>>
    /\ lastRead = NoRead
    /\ relayLog = <<>>
    /\ putLog = <<>>
    /\ lastCmd = NoCmd
    /\ lastSub = NoSub
    /\ touched = [fg |-> {}, bg |-> {}]
    /\ crashed = FALSE
    /\ CreationInit

sessionVars == <<authenticated, active_character, client, clients, threads,
                 brokerUp, nCommands, nPublished, nOutages, relayLog, putLog,
                 lastCmd, lastSub, touched, crashed, creationVars>>

TranscriptInit == authenticated = FALSE /\ InitCommon

TAdd ==
    /\ Len(hist) < Cap + MaxOver
    /\ LET k == IF messages = <<>> THEN 1 ELSE Len(hist) + 1
           text == DecimalStr(k)
           type == Types[(k % 4) + 1]
       IN  /\ messages' = add_message(messages, text, type)
           /\ hist' = HistAfterAdd(hist, messages, text, type)
    /\ lastRead' = NoRead
    /\ UNCHANGED sessionVars

TGet ==
    /\ lastRead' = [valid |-> TRUE, value |-> get_messages(messages),
                    prior |-> IF lastRead.valid THEN <<lastRead.value>> ELSE <<>>]
    /\ messages' = MessagesAfterRead(messages)
    /\ UNCHANGED hist
    /\ UNCHANGED sessionVars

TClear ==
    /\ messages' = clear_messages(messages)
    /\ hist' = <<>>
    /\ lastRead' = NoRead
    /\ UNCHANGED sessionVars

TranscriptNext == TAdd \/ TGet \/ TClear

TranscriptSpec == TranscriptInit /\ [][TranscriptNext]_vars

\* the last n entries of sequence s (all of s when it is shorter)
LastN(s, n) == IF Len(s) <= n THEN s ELSE SubSeq(s, Len(s) - n + 1, Len(s))

\* C1: after any sequence of add_message, get_messages and clear_messages
\* calls the transcript holds at most Cap (100) entries.
C1_TranscriptWithinCap == Len(messages) <= Cap

\* C1 witness: an append was made to a full transcript.
C1_Witness == Len(hist) > Cap /\ Len(messages) = Cap

\* C2: after N > Cap appends to an initially empty transcript, get_messages
\* returns exactly the last Cap appended entries, in the order appended.
C2_ReadReturnsLastCap ==
    (lastRead.valid /\ Len(hist) > Cap) =>
        /\ lastRead.value = LastN(hist, Cap)
        /\ Len(lastRead.value) = Cap

\* C2 witness: get_messages was called after Cap + 2 appends.
C2_Witness == lastRead.valid /\ Len(hist) = Cap + 2

-----------------------------------------------------------------------------
(* The client session: script runs of app.py, the relay workers, the broker *)

Init == authenticated = TRUE /\ InitCommon

Events == Len(clients) + nCommands + nPublished + nOutages

\* the call before: the part of it a later call is compared with
PrevOf(sub) ==
    IF sub.called
    THEN [called |-> TRUE, client |-> sub.client, player_id |-> sub.player_id,
          room |-> sub.room, completed |-> sub.completed, after |-> sub.after]
    ELSE NoPrev

\* what a foreground step leaves behind, from the world w it ends in
Commit(w) ==
    /\ clients' = w.clients
    /\ threads' = w.threads
    /\ messages' = w.messages
    /\ hist' = w.hist
    /\ relayLog' = w.relayLog
    /\ lastSub' = IF w.sub.called
                  THEN [w.sub EXCEPT !.prev = PrevOf(lastSub)]
                  ELSE lastSub
    /\ touched' = [touched EXCEPT !.fg = w.fg]
    /\ crashed' = w.raised
    /\ lastRead' = [valid |-> ~w.raised, value |-> get_messages(w.messages),
                    prior |-> <<>>]

\* lines 163-183: the user selects a character; a MUDClient is constructed
\* and joins.  On success the welcome is appended and st.rerun() runs the
\* script again (lines 198-225); on failure client and character are dropped.
SelectCharacter ==
    /\ authenticated
    /\ active_character = None
    /\ Events < MaxEvents
    /\ \E character \in Characters, initOK \in BOOLEAN,
          joinResp \in JoinResps, lookup \in Lookups :
          LET c == Len(clients) + 1
              w0 == [World EXCEPT !.clients = Append(@, NewClient(initOK))]
              r == join_game(w0, c, character, joinResp, lookup, brokerUp)
          IN  IF r.ok
              THEN /\ Commit(RunWithClient(AddMsg(r.w, r.result, "system"), c))
                   /\ active_character' = character
                   /\ client' = c
              ELSE /\ Commit(r.w)
                   /\ active_character' = None
                   /\ client' = 0
    /\ putLog' = Append(putLog, <<>>)
    /\ UNCHANGED <<authenticated, brokerUp, nCommands, nPublished, nOutages, lastCmd, creationVars>>

\* lines 150-155: Sign Out drops client, game_state and active_character from
\* the session state; the messages list stays, and nothing stops the worker
SignOut ==
    /\ authenticated
    /\ authenticated' = FALSE
    /\ client' = 0
    /\ active_character' = None
    /\ crashed' = FALSE
    /\ UNCHANGED <<messages, clients, threads, brokerUp, nCommands, nPublished,
                   nOutages, hist, lastRead, relayLog, putLog, lastCmd, lastSub,
                   touched, creationVars>>

\* AuthHandler.sign_in succeeds
SignIn ==
    /\ ~authenticated
    /\ authenticated' = TRUE
    /\ UNCHANGED <<active_character, client, messages, clients, threads, brokerUp,
                   nCommands, nPublished, nOutages, hist, lastRead, relayLog,
                   putLog, lastCmd, lastSub, touched, crashed, creationVars>>

\* lines 185-197: a character is active and the session holds no client
Rejoin ==
    \E initOK \in BOOLEAN, joinResp \in JoinResps, lookup \in Lookups :
        LET c == Len(clients) + 1
            w0 == [World EXCEPT !.clients = Append(@, NewClient(initOK))]
            r == join_game(w0, c, active_character, joinResp, lookup, brokerUp)
        IN  /\ Events < MaxEvents
            /\ putLog' = Append(putLog, <<>>)
            /\ client' = c
            /\ IF r.ok
               THEN /\ Commit(TakeFromQueue(r.w, c))
                    /\ active_character' = active_character
               ELSE /\ Commit(r.w)
                    /\ active_character' = None

\* a script run of render_game_interface with a character active: the
\* autorefresh timer, or any other rerun
Refresh ==
    /\ authenticated
    /\ active_character # None
    /\ IF client = 0
       THEN Rejoin
       ELSE /\ Commit(RunWithClient(World, client))
            /\ UNCHANGED <<active_character, client, putLog>>
    /\ UNCHANGED <<authenticated, brokerUp, nCommands, nPublished, nOutages, lastCmd, creationVars>>

\* what is remembered of a send_command call: its arguments, the subscription
\* set before it, and the subscribe_to_redis call it made, if any
\* r is how send_command returned and w the world handle_command ended in:
\* whether the client had a player id, what send_command returned, the
\* requests it sent, the subscription set and the number of transcript entries
\* it left behind, and the entries handle_command appended (the transcript of
\* a session is far from its cap, so they are the new tail of the list)
CmdInfo(c, command, resp, before, r, w) ==
    [called |-> TRUE, client |-> c, command |-> command, resp |-> resp,
     before |-> before, sub |-> w.sub,
     identity |-> Truthy(clients[c].player_id),
     ok |-> r.ok, result |-> r.result, requests |-> r.w.requests,
     subsAfterSend |-> r.w.clients[c].channels,
     addedBySend |-> Len(r.w.messages) - Len(messages),
     shown |-> SubSeq(w.messages, Len(messages) + 1, Len(w.messages))]

\* the user submits a command: handle_command runs as the callback, then the
\* script runs (lines 198-225).  The command box is on the page only when the
\* last script run reached it.
SubmitCommand ==
    /\ authenticated
    /\ active_character # None
    /\ client # 0
    /\ ~crashed
    /\ Events < MaxEvents
    /\ \E command \in Commands, resp \in Responses, db \in DbOutcomes :
          LET r == send_command(World, client, command, resp, db, brokerUp)
              w == handle_command(World, client, command, resp, db, brokerUp)
          IN  /\ Commit(RunWithClient(w, client))
              /\ lastCmd' = CmdInfo(client, command, resp,
                                    clients[client].channels, r, w)
    /\ nCommands' = nCommands + 1
    /\ UNCHANGED <<authenticated, active_character, client, brokerUp, nPublished,
                   nOutages, putLog, creationVars>>

\* a faulty loop condition: the flag is never looked at
ShouldStopNever(cl) == FALSE

\* while not self._stop_listening.is_set(): the loop ends when the flag is set
ShouldStop(cl) == cl.stop_listening

\* a faulty test of what get_message returned: everything is put on the queue
IsDataAny(message) == TRUE

\* message and message['type'] == 'message'.  With
\* ignore_subscribe_messages=True get_message returns None for a subscribe or
\* unsubscribe acknowledgement, and None when nothing has arrived.
IsData(message) == message.type = "message"

\* the thread returns from listen_to_redis: the loop condition failed, or
\* (failed) an exception took it to the except branch
ThreadEnds(t, failed) ==
    threads' = [threads EXCEPT ![t].alive = FALSE, ![t].failed = failed,
                               ![t].pc = "check"]

\* the objects thread t accesses in the part of an iteration it runs
WorkerTouches(c, objs) ==
    touched' = [touched EXCEPT !.bg = @ \cup {<<c, o>> : o \in objs}]

\* lines 239-245 in thread t: get_message and the put of a data message.
\* get_message hands out what the connection holds next; it raises when the
\* broker does not answer, which ends the thread.  late counts the
\* get_message calls the thread made with the stop flag already set; also is
\* what the thread accessed earlier in the same step.
GetAndPut(t, also) ==
    LET c == threads[t].client
        cl == clients[c]
        message == Head(cl.inbox)
        item == [data |-> message.data, channel |-> message.channel,
                 id |-> message.id]
        late == IF cl.stop_listening THEN 1 ELSE 0
    IN  /\ WorkerTouches(c, also \cup {"pubsub"} \cup
               (IF brokerUp /\ cl.inbox # <<>> /\ IsData(message)
                THEN {"_redis_queue"} ELSE {}))
        /\ IF ~brokerUp
           THEN /\ threads' = [threads EXCEPT ![t].alive = FALSE,
                                   ![t].failed = TRUE, ![t].pc = "check",
                                   ![t].late = @ + late]
                /\ UNCHANGED <<clients, putLog>>
           ELSE /\ threads' = [threads EXCEPT ![t].pc = "check",
                                              ![t].late = @ + late]
                /\ IF cl.inbox = <<>>
                   THEN UNCHANGED <<clients, putLog>>
                   ELSE IF IsData(message)
                   THEN /\ clients' = [clients EXCEPT
                              ![c].inbox = Tail(@),
                              ![c].queue = Append(@, item)]
                        /\ putLog' = [putLog EXCEPT ![c] = Append(@, item)]
                   ELSE /\ clients' = [clients EXCEPT ![c].inbox = Tail(@)]
                        /\ UNCHANGED putLog

\* one iteration of the loop of listen_to_redis in thread t: the test of the
\* stop flag, then get_message and the put.  The test is the only step of the
\* iteration that reads the flag, and nothing sets the flag in a session, so
\* the iteration is one step there.  Once MaxThreads threads were started, a
\* thread is no longer scheduled while the broker is down.
WorkerPoll(t) ==
    LET c == threads[t].client
        cl == clients[c]
    IN  /\ threads[t].alive
        /\ threads[t].pc = "check"
        /\ (~ShouldStop(cl) /\ ~brokerUp) => Len(threads) < MaxThreads
        /\ IF ShouldStop(cl)
           THEN /\ ThreadEnds(t, FALSE)
                /\ WorkerTouches(c, {"_stop_listening"})
                /\ UNCHANGED <<clients, putLog>>
           ELSE GetAndPut(t, {"_stop_listening"})
        /\ UNCHANGED <<authenticated, active_character, client, messages, brokerUp,
                       nCommands, nPublished, nOutages, hist, lastRead, relayLog,
                       lastCmd, lastSub, crashed, creationVars>>

Worker == \E t \in 1..Len(threads) : WorkerPoll(t)

\* every channel some pubsub connection is subscribed to
SubscribedChannels == UNION {clients[c].channels : c \in 1..Len(clients)}

\* a publisher sends data on channel: the broker delivers it to every
\* connection subscribed to the channel
Publish ==
    /\ brokerUp
    /\ Events < MaxEvents
    /\ \E channel \in SubscribedChannels, data \in Payloads :
          clients' = [c \in 1..Len(clients) |->
              IF channel \in clients[c].channels
              THEN [clients[c] EXCEPT !.inbox = Append(@,
                       [type |-> "message", channel |-> channel, data |-> data,
                        id |-> nPublished + 1])]
              ELSE clients[c]]
    /\ nPublished' = nPublished + 1
    /\ UNCHANGED <<authenticated, active_character, client, messages, threads,
                   brokerUp, nCommands, nOutages, hist, lastRead, relayLog, putLog,
                   lastCmd, lastSub, touched, crashed, creationVars>>

\* the broker stops answering
BrokerFails ==
    /\ brokerUp
    /\ Events < MaxEvents
    /\ brokerUp' = FALSE
    /\ nOutages' = nOutages + 1
    /\ UNCHANGED <<authenticated, active_character, client, messages, clients,
                   threads, nCommands, nPublished, hist, lastRead, relayLog, putLog,
                   lastCmd, lastSub, touched, crashed, creationVars>>

\* the broker answers again; the pubsub connections come back with the
\* subscriptions they had
BrokerRecovers ==
    /\ ~brokerUp
    /\ brokerUp' = TRUE
    /\ UNCHANGED <<authenticated, active_character, client, messages, clients,
                   threads, nCommands, nPublished, nOutages, hist, lastRead,
                   relayLog, putLog, lastCmd, lastSub, touched, crashed, creationVars>>

Next ==
    \/ SelectCharacter
    \/ SignOut
    \/ SignIn
    \/ Refresh
    \/ SubmitCommand
    \/ Worker
    \/ Publish
    \/ BrokerFails
    \/ BrokerRecovers

Spec == Init /\ [][Next]_vars

\* st_autorefresh(interval=1000) reruns the script every second
FairSpec == Spec /\ WF_vars(Refresh)

-----------------------------------------------------------------------------
(* Properties of the client session *)

ClientIds == 1..Len(clients)

ThreadsOf(c) == {t \in 1..Len(threads) : threads[t].client = c}

LiveThreadsOf(c) == {t \in ThreadsOf(c) : threads[t].alive}

LiveThreads == {t \in 1..Len(threads) : threads[t].alive}

RoomChannelsOf(c) == {ch \in clients[c].channels : IsRoomChannel(ch)}

\* the channel names the bus uses, written out
Player7Literal ==
    <<"p", "l", "a", "y", "e", "r", ":", "7">>

SystemLiteral ==
    <<"s", "y", "s", "t", "e", "m">>

RoomEngineRoomLiteral ==
    <<"r", "o", "o", "m", ":", "E", "n", "g", "i", "n", "e", "_", "R", "o",
      "o", "m">>

RoomBayLiteral ==
    <<"r", "o", "o", "m", ":", "B", "a", "y">>

RoomNoWayLiteral ==
    <<"r", "o", "o", "m", ":", "N", "o", "_", "w", "a", "y">>

EngineRoomName ==
    <<"E", "n", "g", "i", "n", "e", " ", "R", "o", "o", "m">>

NoWayName ==
    <<"N", "o", " ", "w", "a", "y">>

\* the room channel of each room name the game server of the model uses
ExpectedRoomChannel(room) ==
    CASE room = EngineRoomName -> RoomEngineRoomLiteral
      [] room = BayMsg -> RoomBayLiteral
      [] room = NoWayName -> RoomNoWayLiteral

\* the room named by the first line of each private message of the model
ExpectedRoomOf(privateMessage) ==
    CASE privateMessage = EngineRoomMsg -> EngineRoomName
      [] privateMessage = BayMsg -> BayMsg
      [] privateMessage = NoWayMsg -> NoWayName
      [] OTHER -> <<>>

\* the last send_command was a movement command the server answered with
\* success and a private message whose first line names a room
MoveSucceeded ==
    /\ lastCmd.called
    /\ lastCmd.command = <<"M", "o", "v", "e", " ", "n">>
    /\ lastCmd.resp.status = 200
    /\ lastCmd.resp.hasResult
    /\ lastCmd.resp.success
    /\ lastCmd.resp.privateMessage \in {EngineRoomMsg, BayMsg}

C4_AtMostOneLiveWorker == Cardinality(LiveThreads) <= 1

\* C5: a relay message that reaches the transcript from a room channel comes
\* from the room the client is subscribed to when it is appended: nothing
\* published on the prior room's channel is shown after the swap.
C5_NoStaleRoomTraffic ==
    \A i \in 1..Len(relayLog) :
        IsRoomChannel(relayLog[i].channel) =>
            relayLog[i].channel \in relayLog[i].subsAt

\* C6: the hand-off queue is the only object of a client that both the
\* foreground and the relay worker access.
C6_OnlyQueueShared ==
    \A c \in ClientIds :
        {o \in {"pubsub", "_stop_listening", "listener_thread", "_redis_queue"} :
            <<c, o>> \in touched.fg /\ <<c, o>> \in touched.bg}
        \subseteq {"_redis_queue"}

IsTruthyItem(item) == Truthy(item.data)

Ids(items) == [i \in 1..Len(items) |-> items[i].id]

Data(items) == [i \in 1..Len(items) |-> items[i].data]

Texts(entries) == [i \in 1..Len(entries) |-> entries[i].message]

\* the relay payloads the consumer took off client c's queue and appended
ConsumedFrom(c) ==
    LET Via(e) == e.via = c
    IN  SelectSeq(relayLog, Via)

IsRelayEntry(e) == e.type = "system" /\ e.message \in (Payloads \ {<<>>})

\* the client's truthy payloads: those appended, then those still queued, are
\* those the workers put, in the order they were put; and the transcript holds
\* one "system" entry for each payload appended, in that order
C7_NoLossNoDuplicate ==
    /\ \A c \in ClientIds :
          Ids(ConsumedFrom(c)) \o Ids(SelectSeq(clients[c].queue, IsTruthyItem))
              = Ids(SelectSeq(putLog[c], IsTruthyItem))
    /\ Texts(SelectSeq(messages, IsRelayEntry)) = Data(relayLog)

\* while c stays the session's client, its k-th truthy payload is appended
C7_Delivered(c, k) ==
    (client = c /\ c <= Len(clients)
        /\ Len(SelectSeq(putLog[c], IsTruthyItem)) >= k)
    ~> (client # c \/ Len(ConsumedFrom(c)) >= k)

\* C7: no relay message is lost or duplicated between the worker and the
\* consumer: every truthy payload a worker puts on the queue is appended to
\* the transcript exactly once, in queue order, as long as script runs keep
\* occurring for the client.
C7_ExactlyOnceInOrder ==
    /\ []C7_NoLossNoDuplicate
    /\ \A c \in 1..MaxEvents, k \in 1..MaxEvents : C7_Delivered(c, k)

\* C7 witness: two payloads were put on a queue, and both were appended.
C7_Witness ==
    \E c \in ClientIds :
        /\ Len(SelectSeq(putLog[c], IsTruthyItem)) = 2
        /\ Len(ConsumedFrom(c)) = 2
        /\ Len(SelectSeq(messages, IsRelayEntry)) = 2

\* C8: a client holds one subscription set, and a room change replaces it:
\* once subscribe_to_redis has completed for player 7 and a room, the channels
\* of the client are exactly player:7, system and that room's channel (no room
\* channel when no room was found), and no client ever holds two room channels.
C8_SubscriptionReplaced ==
    /\ \A c \in ClientIds : Cardinality(RoomChannelsOf(c)) <= 1
    /\ (lastSub.called /\ lastSub.completed) =>
          clients[lastSub.client].channels =
              {Player7Literal, SystemLiteral}
                  \cup (IF lastSub.room = <<>> THEN {}
                        ELSE {ExpectedRoomChannel(lastSub.room)})

\* C8 witness: a client subscribed to room:Bay has moved to the Engine Room.
C8_Witness ==
    /\ lastCmd.called
    /\ RoomBayLiteral \in lastCmd.before
    /\ lastSub.called
    /\ lastSub.completed
    /\ lastSub.client = lastCmd.client
    /\ lastSub.room = EngineRoomName

\* C9: when send_command has returned for a movement command that succeeded,
\* the client is subscribed to the destination room's channel and to no other
\* room's channel.
C9_SubscribedToDestination ==
    MoveSucceeded =>
        RoomChannelsOf(lastCmd.client) =
            {ExpectedRoomChannel(ExpectedRoomOf(lastCmd.resp.privateMessage))}

\* C10: a movement command that succeeds with the private message
\* "Engine Room\nYou arrive." makes the room channel room:Engine_Room; in
\* general the room channel is "room:" and the first line of the private
\* message (a room name) with each space replaced by an underscore, and it is
\* the room channel subscribed to when the resubscription goes through.
C10_RoomChannelOfMove ==
    MoveSucceeded =>
        /\ lastCmd.sub.called
        /\ lastCmd.sub.client = lastCmd.client
        /\ lastCmd.sub.room_channel =
               ExpectedRoomChannel(ExpectedRoomOf(lastCmd.resp.privateMessage))
        /\ lastCmd.resp.privateMessage = EngineRoomMsg =>
               lastCmd.sub.room_channel = RoomEngineRoomLiteral
        /\ lastCmd.sub.completed =>
               RoomChannelsOf(lastCmd.client) = {lastCmd.sub.room_channel}

\* C10 witness: the move to the Engine Room went through.
C10_Witness ==
    /\ MoveSucceeded
    /\ lastCmd.resp.privateMessage = EngineRoomMsg
    /\ lastCmd.sub.completed
    /\ RoomEngineRoomLiteral \in clients[lastCmd.client].channels

-----------------------------------------------------------------------------
(* The MUDClient on its own: its methods, and handle_command, called in any *)
(* order on any client object.  In the relay specification the thread runs  *)
(* one statement of its loop at a time and the owner of the client is free  *)
(* to set the stop flag.  Nothing in app.py sets the flag or sends a        *)
(* command on a client that has not joined; here both happen.               *)

\* the rooms update_room is called with
Rooms == {BayMsg, EngineRoomName}

ClientInit == authenticated = FALSE /\ InitCommon

\* the events since the clients were constructed
Calls == nCommands + nPublished + nOutages

\* MUDClient(config)
Construct ==
    /\ Events < MaxEvents
    /\ \E initOK \in BOOLEAN : clients' = Append(clients, NewClient(initOK))
    /\ putLog' = Append(putLog, <<>>)
    /\ UNCHANGED <<authenticated, active_character, client, messages, threads,
                   brokerUp, nCommands, nPublished, nOutages, hist, lastRead,
                   relayLog, lastCmd, lastSub, touched, crashed, creationVars>>

\* client.join_game(player_id, user_id)
CallJoin(c) ==
    /\ Events < MaxEvents
    /\ \E character \in Characters, joinResp \in JoinResps, lookup \in Lookups :
          Commit(join_game(World, c, character, joinResp, lookup, brokerUp).w)
    /\ nCommands' = nCommands + 1
    /\ UNCHANGED <<authenticated, active_character, client, brokerUp, nPublished,
                   nOutages, putLog, lastCmd, creationVars>>

\* handle_command with c as the session's client
CallCommand(c) ==
    /\ Events < MaxEvents
    /\ \E command \in Commands, resp \in Responses, db \in ServiceOutcomes :
          LET r == send_command(World, c, command, resp, db, brokerUp)
              w == handle_command(World, c, command, resp, db, brokerUp)
          IN  /\ Commit(w)
              /\ lastCmd' = CmdInfo(c, command, resp, clients[c].channels, r, w)
    /\ nCommands' = nCommands + 1
    /\ UNCHANGED <<authenticated, active_character, client, brokerUp, nPublished,
                   nOutages, putLog, creationVars>>

\* client.subscribe_to_redis(player_id, current_room=room)
CallUpdateRoom(c) ==
    /\ Calls < MaxEvents
    /\ \E player_id \in Characters, room \in Rooms :
          Commit(subscribe_to_redis(World, c, player_id, Given(room),
                                    [status |-> 0, roomName |-> None], brokerUp))
    /\ nCommands' = nCommands + 1
    /\ UNCHANGED <<authenticated, active_character, client, brokerUp, nPublished,
                   nOutages, putLog, lastCmd, creationVars>>

\* client.start_listener_thread()
CallStart(c) ==
    /\ Calls < MaxEvents
    /\ Commit(start_listener_thread(World, c))
    /\ nCommands' = nCommands + 1
    /\ UNCHANGED <<authenticated, active_character, client, brokerUp, nPublished,
                   nOutages, putLog, lastCmd, creationVars>>

\* client._stop_listening.set(), the cooperative stop signal
SetStop(c) ==
    /\ Calls < MaxEvents
    /\ clients[c].redis_client
    /\ clients' = [clients EXCEPT ![c].stop_listening = TRUE]
    /\ touched' = [touched EXCEPT !.fg = @ \cup {<<c, "_stop_listening">>}]
    /\ nCommands' = nCommands + 1
    /\ UNCHANGED <<authenticated, active_character, client, messages, threads,
                   brokerUp, nPublished, nOutages, hist, lastRead, relayLog,
                   putLog, lastCmd, lastSub, crashed, creationVars>>

\* line 238 in thread t: the loop condition
ListenCheck(t) ==
    LET c == threads[t].client
    IN  /\ threads[t].alive
        /\ threads[t].pc = "check"
        /\ IF ShouldStop(clients[c])
           THEN ThreadEnds(t, FALSE)
           ELSE threads' = [threads EXCEPT ![t].pc = "get"]
        /\ WorkerTouches(c, {"_stop_listening"})
        /\ UNCHANGED <<authenticated, active_character, client, messages, clients,
                       brokerUp, nCommands, nPublished, nOutages, hist, lastRead,
                       relayLog, putLog, lastCmd, lastSub, crashed, creationVars>>

\* lines 239-245 in thread t: the body of the loop
ListenGet(t) ==
    /\ threads[t].alive
    /\ threads[t].pc = "get"
    /\ GetAndPut(t, {})
    /\ UNCHANGED <<authenticated, active_character, client, messages, brokerUp,
                   nCommands, nPublished, nOutages, hist, lastRead, relayLog,
                   lastCmd, lastSub, crashed, creationVars>>

\* thread t, if there is one, runs its next statement
ListenStep(t) == t <= Len(threads) /\ (ListenCheck(t) \/ ListenGet(t))

Listen == \E t \in 1..Len(threads) : ListenStep(t)

\* the command gateway: clients are constructed, join and are sent commands,
\* while the broker comes and goes; the relay threads are not scheduled
GatewayNext ==
    \/ Construct
    \/ \E c \in 1..Len(clients) : CallJoin(c)
    \/ \E c \in 1..Len(clients) : CallCommand(c)
    \/ BrokerFails
    \/ BrokerRecovers

GatewaySpec == ClientInit /\ [][GatewayNext]_vars

\* one MUDClient has been constructed
RelayInit ==
    /\ authenticated = FALSE
    /\ messages = <<>>
    /\ \E initOK \in BOOLEAN : clients = <<NewClient(initOK)>>
    /\ threads = <<>>
    /\ client = 0
    /\ active_character = None
    /\ brokerUp = TRUE
    /\ nCommands = 0
    /\ nPublished = 0
    /\ nOutages = 0
    /\ hist = <<>>
    /\ lastRead = NoRead
    /\ relayLog = <<>>
    /\ putLog = << <<>> >>
    /\ lastCmd = NoCmd
    /\ lastSub = NoSub
    /\ touched = [fg |-> {}, bg |-> {}]
    /\ crashed = FALSE
    /\ CreationInit

\* the relay: the client is told its room, the worker is started and told to
\* stop, and messages are published
RelayNext ==
    \/ \E c \in 1..Len(clients) : CallUpdateRoom(c)
    \/ \E c \in 1..Len(clients) : CallStart(c)
    \/ \E c \in 1..Len(clients) : SetStop(c)
    \/ Listen
    \/ Publish
    \/ BrokerFails
    \/ BrokerRecovers

RelaySpec == RelayInit /\ [][RelayNext]_vars

\* a started thread keeps running
FairRelaySpec ==
    RelaySpec /\ \A t \in 1..MaxEvents : WF_vars(ListenStep(t))

-----------------------------------------------------------------------------
(* Properties of the command gateway *)

NotConnectedLiteral ==
    <<"N", "o", "t", " ", "c", "o", "n", "n", "e", "c", "t", "e", "d", " ",
      "t", "o", " ", "g", "a", "m", "e">>

CommandFailedLiteral ==
    <<"C", "o", "m", "m", "a", "n", "d", " ", "f", "a", "i", "l", "e", "d",
      ":", " ">>

\* C11: send_command on a client with no player id returns the failure
\* "Not connected to game", sends no request to the game server, leaves the
\* subscription set as it was and appends nothing to the transcript itself.
C11_NotConnected ==
    (lastCmd.called /\ ~lastCmd.identity) =>
        /\ ~lastCmd.ok
        /\ lastCmd.result.message = NotConnectedLiteral
        /\ lastCmd.requests = {}
        /\ ~lastCmd.sub.called
        /\ lastCmd.subsAfterSend = lastCmd.before
        /\ lastCmd.addedBySend = 0

\* C11 witness: a movement command the server would have answered with a new
\* room was sent on a client that has no player id.
C11_Witness ==
    /\ lastCmd.called
    /\ ~lastCmd.identity
    /\ lastCmd.command = <<"M", "o", "v", "e", " ", "n">>
    /\ lastCmd.resp.privateMessage = EngineRoomMsg
    /\ ~lastCmd.ok

\* the last command failed: no player id, no answer, or a non-200 status
CommandFailed ==
    /\ lastCmd.called
    /\ \/ ~lastCmd.identity
       \/ lastCmd.resp.status # 200

\* C16: a command that fails (not connected, transport failure, non-success
\* status) gives exactly one new transcript entry, of category error, holding
\* the message of the failure; no private, room or system entry is appended.
C16_FailureShownOnce ==
    CommandFailed =>
        /\ ~lastCmd.ok
        /\ Len(lastCmd.shown) = 1
        /\ lastCmd.shown[1].type = "error"
        /\ lastCmd.shown[1].message = lastCmd.result.message
        /\ messages # <<>>
        /\ messages[Len(messages)] = lastCmd.shown[1]

\* C16 witness: the request of a command could not be sent, and the one
\* error entry is in the transcript.
C16_Witness ==
    /\ lastCmd.called
    /\ lastCmd.identity
    /\ lastCmd.resp.status = 0
    /\ Len(lastCmd.shown) = 1
    /\ messages[Len(messages)].type = "error"

\* the last command was answered with a non-success status
NonSuccessStatus ==
    /\ lastCmd.called
    /\ lastCmd.identity
    /\ lastCmd.resp.status \notin {0, 200}

\* C17 as stated: on a non-success status send_command returns a failure
\* whose message is the body's error field when there is one, and the raw
\* response text otherwise.
C17_ErrorFieldOrRawText ==
    NonSuccessStatus =>
        /\ ~lastCmd.ok
        /\ lastCmd.result.message =
               IF lastCmd.resp.json /\ lastCmd.resp.error # NotGiven
               THEN lastCmd.resp.error[1]
               ELSE lastCmd.resp.text

\* C17 amended: on a non-success status send_command returns a failure whose
\* message is the body's error field when the body parses and has one, and
\* otherwise "Command failed: " followed by the raw response text.
C17_ErrorFieldOrPrefixedText ==
    NonSuccessStatus =>
        /\ ~lastCmd.ok
        /\ lastCmd.result.message =
               IF lastCmd.resp.json /\ lastCmd.resp.error # NotGiven
               THEN lastCmd.resp.error[1]
               ELSE CommandFailedLiteral \o lastCmd.resp.text

\* C17 witness: a 500 answer whose body carries the error "boom" was
\* returned as the failure "boom".
C17_Witness ==
    /\ NonSuccessStatus
    /\ lastCmd.resp.error = Given(BoomMsg)
    /\ lastCmd.result.message = <<"b", "o", "o", "m">>

-----------------------------------------------------------------------------
(* Properties of the relay *)

\* the last two subscribe_to_redis calls were made on the same client for the
\* same player and the same room, one after the other, and both completed
UpdatedRoomTwice ==
    /\ lastSub.called
    /\ lastSub.completed
    /\ lastSub.room # <<>>
    /\ lastSub.prev.called
    /\ lastSub.prev.completed
    /\ lastSub.prev.client = lastSub.client
    /\ lastSub.prev.player_id = lastSub.player_id
    /\ lastSub.prev.room = lastSub.room

\* C12: update_room called twice in a row with the same room leaves the
\* subscription set the first call left, and exactly one live relay worker.
C12_UpdateRoomIdempotent ==
    UpdatedRoomTwice =>
        /\ lastSub.after = lastSub.prev.after
        /\ clients[lastSub.client].channels = lastSub.prev.after
        /\ lastSub.live = 1

\* C12 witness: the client was told twice that its room is the Engine Room.
C12_Witness ==
    /\ UpdatedRoomTwice
    /\ lastSub.room = EngineRoomName
    /\ RoomEngineRoomLiteral \in clients[lastSub.client].channels

\* a thread that has returned stays returned
EndedStaysEnded ==
    \A t \in 1..Len(threads) : ~threads[t].alive => ~threads'[t].alive

\* a payload is put on a client's queue only by a live thread of the client
\* that is past the test of the stop flag
PutOnlyPastTheTest ==
    \A c \in 1..Len(clients) :
        putLog'[c] # putLog[c] =>
            \E t \in 1..Len(threads) :
                /\ threads[t].client = c
                /\ threads[t].alive
                /\ threads[t].pc = "get"

\* no thread has called get_message twice with the stop flag set
AtMostOneLatePoll == \A t \in 1..Len(threads) : threads[t].late <= 1

\* the stop flag of client c is set: its worker returns
StopTerminates(c) ==
    (c <= Len(clients) /\ clients[c].stop_listening)
    ~> (\A t \in 1..Len(threads) : threads[t].client = c => ~threads[t].alive)

\* C15: once the stop flag is set the worker returns within one iteration of
\* its loop: it calls get_message at most once more, it returns, and it puts
\* nothing on the queue once it has seen the flag.
C15_StopsWithinOneIteration ==
    /\ []AtMostOneLatePoll
    /\ [][EndedStaysEnded /\ PutOnlyPastTheTest]_vars
    /\ \A c \in 1..MaxEvents : StopTerminates(c)

\* C15 witness: a worker has seen the flag and returned while a published
\* message was waiting on the connection, and nothing was put on the queue.
C15_Witness ==
    \E t \in 1..Len(threads) :
        LET c == threads[t].client
        IN  /\ ~threads[t].alive
            /\ ~threads[t].failed
            /\ clients[c].stop_listening
            /\ \E i \in 1..Len(clients[c].inbox) : clients[c].inbox[i].type = "message"
            /\ putLog[c] = <<>>

-----------------------------------------------------------------------------
(* Further properties of the client session *)

FailedThreadsOf(c) == {t \in ThreadsOf(c) : threads[t].failed}

\* C13: a worker that meets a transport error exits and the relay is not
\* tried again and again: an outage of the broker ends at most one worker of
\* a client.
C13_NoRetryAfterFailure ==
    \A c \in ClientIds : Cardinality(FailedThreadsOf(c)) <= nOutages

\* C14: no script run ends in an unhandled exception, whatever the broker and
\* the game server do.
C14_NoUnhandledException == ~crashed

\* C18: once a client has joined, every subscription set it holds has
\* player:7 and system in it: the set of the session's client, and every
\* non-empty set of any client.
C18_BaselineKept ==
    /\ \A c \in ClientIds :
          clients[c].channels # {} =>
              {Player7Literal, SystemLiteral} \subseteq clients[c].channels
    /\ (client # 0 /\ clients[client].redis_client) =>
          {Player7Literal, SystemLiteral} \subseteq clients[client].channels

\* C18 witness: the session's client has changed room, from the Bay to the
\* Engine Room, and still holds both.
C18_Witness ==
    /\ client # 0
    /\ lastCmd.called
    /\ lastCmd.client = client
    /\ lastCmd.sub.called
    /\ lastCmd.sub.completed
    /\ RoomBayLiteral \in lastCmd.before
    /\ clients[client].channels =
           {Player7Literal, SystemLiteral, RoomEngineRoomLiteral}

\* the last subscribe_to_redis call found no room (none passed in and none
\* from the lookup, or an empty one), while the broker answered
RoomUnknown ==
    /\ lastSub.called
    /\ lastSub.room = <<>>
    /\ lastSub.up

\* C19: when the room cannot be determined subscribe_to_redis still
\* completes: the client is subscribed to exactly player:7 and system, and
\* its relay worker is running.
C19_NoRoomStillSubscribes ==
    RoomUnknown =>
        /\ lastSub.completed
        /\ lastSub.after = {Player7Literal, SystemLiteral}
        /\ clients[lastSub.client].channels = {Player7Literal, SystemLiteral}
        /\ lastSub.live = 1

\* C19 witness: the session's client joined while the lookup of its room
\* failed, and it is subscribed.
C19_Witness ==
    /\ RoomUnknown
    /\ ~lastCmd.called
    /\ client = lastSub.client
    /\ clients[client].channels = {Player7Literal, SystemLiteral}
    /\ LiveThreadsOf(client) # {}

\* the publication numbers of the items, as a set
IdSet(items) == {items[i].id : i \in 1..Len(items)}

\* C20: only the payloads of data messages are put on the hand-off queue:
\* every item a worker has put is a publication, put once, and what is on
\* the queue was put by a worker; an acknowledgement or an empty poll puts
\* nothing.
C20_OnlyDataQueued ==
    \A c \in ClientIds :
        /\ IdSet(putLog[c]) \subseteq 1..nPublished
        /\ Cardinality(IdSet(putLog[c])) = Len(putLog[c])
        /\ IdSet(clients[c].queue) \subseteq IdSet(putLog[c])
        /\ \A i \in 1..Len(putLog[c]) :
              IsRoomChannel(putLog[c][i].channel)
                  \/ putLog[c][i].channel \in {Player7Literal, SystemLiteral}

\* C20 witness: a worker has read the acknowledgement of the subscribe and a
\* published message, polled with nothing waiting, and put the one message.
C20_Witness ==
    \E c \in ClientIds :
        /\ clients[c].channels # {}
        /\ clients[c].inbox = <<>>
        /\ Len(putLog[c]) = 1
        /\ nPublished = 1
        /\ <<c, "_redis_queue">> \in touched.bg

-----------------------------------------------------------------------------
(* Further properties of the transcript *)

\* C21: get_messages is idempotent and non-destructive: what it returns is
\* the transcript, the transcript is as it was after the call, and a call
\* that follows another with no append in between returns the same sequence.
C21_ReadLeavesTranscript ==
    lastRead.valid =>
        /\ lastRead.value = messages
        /\ lastRead.prior # <<>> => lastRead.value = lastRead.prior[1]
        /\ Len(messages) = IF Len(hist) <= Cap THEN Len(hist) ELSE Cap

\* C21 witness: get_messages was called twice in a row on a transcript of
\* three entries.
C21_Witness ==
    /\ lastRead.valid
    /\ lastRead.prior # <<>>
    /\ Len(lastRead.value) = 3
    /\ Len(messages) = 3

-----------------------------------------------------------------------------
(* Further properties of send_command and join_game *)

\* the last send_command was given a command with the movement prefix
HasMovePrefix == StartsWith(Lower(lastCmd.command), MovePrefix)

\* the last send_command was answered with a result whose success is false
ResultSaysFailure ==
    /\ lastCmd.resp.status = 200
    /\ lastCmd.resp.hasResult
    /\ ~lastCmd.resp.success

\* the last send_command called subscribe_to_redis or changed the set
Resubscribed ==
    \/ lastCmd.sub.called
    \/ lastCmd.subsAfterSend # lastCmd.before

\* C23: send_command resubscribes only for a movement command that succeeds:
\* a command without the movement prefix, or a movement command whose result
\* carries success = false, leaves the subscription set unchanged.
C23_ResubscribesOnlyOnSuccess ==
    (lastCmd.called /\ (~HasMovePrefix \/ ResultSaysFailure)) => ~Resubscribed

\* the half of C23 about commands without the movement prefix
NoPrefixNoResubscription ==
    (lastCmd.called /\ ~HasMovePrefix) => ~Resubscribed

\* C24: if join_game returns failure the client's player identity stays
\* unset and the call has started no subscription and no relay worker; the
\* identity is set only by a join that returns success.  (In a session
\* join_game is called once on a client, right after its construction.)
C24_FailedJoinLeavesNothing ==
    \A c \in ClientIds :
        /\ clients[c].joined = "failed" =>
               /\ clients[c].player_id = None
               /\ clients[c].channels = {}
               /\ ThreadsOf(c) = {}
        /\ Truthy(clients[c].player_id) => clients[c].joined = "ok"

\* the part of C24 that holds: a join that fails before the join response
\* was parsed (lines 61-143, 154-166) changes nothing
EarlyFailureLeavesNothing ==
    \A c \in ClientIds :
        (clients[c].joined = "failed" /\ clients[c].player_id = None) =>
            (clients[c].channels = {} /\ ThreadsOf(c) = {})

\* the room channels send_command left the client subscribed to
RoomChannelsAfterSend == {ch \in lastCmd.subsAfterSend : IsRoomChannel(ch)}

\* C25: for a movement command that succeeds, send_command resubscribes to
\* the destination room's channel whatever becomes of the location update,
\* a character service that cannot be constructed included: it has called
\* subscribe_to_redis, and unless that call failed for a reason of its own
\* the room channel held when send_command returns is the destination's.
\* (The command was sent, by a client that has a broker connection.)
C25_ResubscribesWhateverTheStoreDoes ==
    (MoveSucceeded /\ lastCmd.identity /\ clients[lastCmd.client].redis_client) =>
        /\ lastCmd.sub.called
        /\ lastCmd.sub.completed =>
               RoomChannelsAfterSend =
                   {ExpectedRoomChannel(ExpectedRoomOf(lastCmd.resp.privateMessage))}

-----------------------------------------------------------------------------
(* Character creation: the form of render_character_creation and           *)
(* CharacterService.create_character                                        *)

\* what POST /game/attributes/roll may give as "rolls"
RollResults == {"weak", "strong"}

\* how the request of roll_attributes ends: 200 with rolls, 200 without
\* "rolls", a non-200 status, and (status 0) an exception
RollAnswers ==
    {[status |-> 200, rolls |-> Given(r)] : r \in RollResults} \cup
    {[status |-> 200, rolls |-> NotGiven],
     [status |-> 500, rolls |-> NotGiven],
     [status |-> 0, rolls |-> NotGiven]}

\* CharacterService.roll_attributes
roll_attributes(answer) ==
    IF answer.status = 200 /\ answer.rolls # NotGiven
    THEN [ok |-> TRUE, result |-> answer.rolls[1]]
    ELSE [ok |-> FALSE, result |-> "error"]

\* lines 433-435: both keys are set when attribute_rolls is absent
EnsureRolls(ss) ==
    IF ss.attribute_rolls = NotGiven
    THEN [attribute_rolls |-> Given(<<>>), roll_count |-> Given(0)]
    ELSE ss

\* a faulty Roll Attributes: the roll is made whatever roll_count is
roll_submit_nolimit(ss, answer) ==
    LET s1 == EnsureRolls(ss)
        r == roll_attributes(answer)
    IN  IF r.ok
        THEN [attribute_rolls |-> Given(Append(s1.attribute_rolls[1], r.result)),
              roll_count |-> Given(s1.roll_count[1] + 1)]
        ELSE s1

\* lines 433-442: a script run in which Roll Attributes was submitted
roll_submit(ss, answer) ==
    LET s1 == EnsureRolls(ss)
        r == roll_attributes(answer)
    IN  IF s1.roll_count[1] < 3 /\ r.ok
        THEN [attribute_rolls |-> Given(Append(s1.attribute_rolls[1], r.result)),
              roll_count |-> Given(s1.roll_count[1] + 1)]
        ELSE s1

\* the names typed into the form; <<>> is the empty field
Names == {<<"A", "l">>, <<"a", "l">>, <<"B", "o">>, <<>>}

\* how the calls of create_character end: the name check and the delete
\* (done or an exception), the insert (a row, no row, an exception) and
\* POST /game/characters (200, another status, and 0 for an exception)
CreateOutcome(check, insert, game, delete) ==
    [check |-> check, insert |-> insert, game |-> game, delete |-> delete]

\* one outcome for each way through create_character
CreateOutcomes ==
    {CreateOutcome("error", "ok", 200, "ok"),
     CreateOutcome("ok", "nodata", 200, "ok"),
     CreateOutcome("ok", "error", 200, "ok"),
     CreateOutcome("ok", "ok", 0, "ok"),
     CreateOutcome("ok", "ok", 500, "ok"),
     CreateOutcome("ok", "ok", 500, "error"),
     CreateOutcome("ok", "ok", 200, "ok")}

\* CharacterService.create_character on the character table st.  ilike
\* compares without regard to case.  at is where the call returned.
create_character(st, character_id, first_name, attributes, out) ==
    LET taken == \E r \in st : Lower(r.first_name) = Lower(first_name)
        row == [id |-> character_id, first_name |-> first_name,
                attributes |-> attributes]
        inserted == st \cup {row}
        deleted == {r \in inserted : r.id # character_id}
        Ret(s, ok, at) == [store |-> s, ok |-> ok, at |-> at]
    IN  IF out.check = "error" THEN Ret(st, FALSE, "check")
        ELSE IF taken THEN Ret(st, FALSE, "name")
        ELSE IF out.insert # "ok" THEN Ret(st, FALSE, "insert")
        ELSE IF out.game = 0 THEN Ret(inserted, FALSE, "post")
        ELSE IF out.game # 200
        THEN IF out.delete = "ok"
             THEN Ret(deleted, FALSE, "status")
             ELSE Ret(inserted, FALSE, "delete")
        ELSE Ret(inserted, TRUE, "done")

\* the creation form is rendered (lines 421-448) and nothing is submitted
ShowCreationForm ==
    /\ authenticated
    /\ active_character = None
    /\ LET ss == EnsureRolls([attribute_rolls |-> attribute_rolls,
                              roll_count |-> roll_count])
       IN  /\ attribute_rolls' = ss.attribute_rolls
           /\ roll_count' = ss.roll_count
    /\ UNCHANGED <<store, lastRoll, lastCreate>>
    /\ UNCHANGED <<authenticated, active_character, client, messages, clients,
                   threads, brokerUp, nCommands, nPublished, nOutages, hist,
                   lastRead, relayLog, putLog, lastCmd, lastSub, touched, crashed>>

\* the user submits Roll Attributes on the rendered form
RollAttributes ==
    /\ authenticated
    /\ active_character = None
    /\ attribute_rolls # NotGiven
    /\ \E answer \in RollAnswers :
          LET ss == roll_submit([attribute_rolls |-> attribute_rolls,
                                 roll_count |-> roll_count], answer)
          IN  /\ attribute_rolls' = ss.attribute_rolls
              /\ roll_count' = ss.roll_count
              /\ lastRoll' = [called |-> TRUE, before |-> roll_count[1],
                              ready |-> roll_attributes(answer).ok]
    /\ UNCHANGED <<store, lastCreate>>
    /\ UNCHANGED <<authenticated, active_character, client, messages, clients,
                   threads, brokerUp, nCommands, nPublished, nOutages, hist,
                   lastRead, relayLog, putLog, lastCmd, lastSub, touched, crashed>>

\* the user submits Create Character on the rendered form (lines 450-479).
\* uuid4 gives an id no call was given before.  On success both keys are
\* popped; give_starter_items touches nothing the model holds.
CreateCharacter ==
    /\ authenticated
    /\ active_character = None
    /\ attribute_rolls # NotGiven
    /\ Events < MaxEvents
    /\ \E first_name \in Names, out \in CreateOutcomes :
          LET rolls == attribute_rolls[1]
          IN  IF ~Truthy(first_name) \/ rolls = <<>>
              THEN UNCHANGED <<attribute_rolls, roll_count, store, lastCreate,
                               nCommands>>
              ELSE \E selected_roll \in 1..Len(rolls) :
                      LET character_id == nCommands + 1
                          r == create_character(store, character_id, first_name,
                                                rolls[selected_roll], out)
                      IN  /\ store' = r.store
                          /\ lastCreate' = [called |-> TRUE, id |-> character_id,
                                            ok |-> r.ok, at |-> r.at]
                          /\ nCommands' = nCommands + 1
                          /\ IF r.ok
                             THEN /\ attribute_rolls' = NotGiven
                                  /\ roll_count' = NotGiven
                             ELSE UNCHANGED <<attribute_rolls, roll_count>>
    /\ UNCHANGED lastRoll
    /\ UNCHANGED <<authenticated, active_character, client, messages, clients,
                   threads, brokerUp, nPublished, nOutages, hist, lastRead,
                   relayLog, putLog, lastCmd, lastSub, touched, crashed>>

CreationNext == ShowCreationForm \/ RollAttributes \/ CreateCharacter

CreationSpec == Init /\ [][CreationNext]_vars

-----------------------------------------------------------------------------
(* Properties of character creation *)

\* the character table holds a row with this id
HasRecord(id) == \E r \in store : r.id = id

\* C22: when create_character fails because the game server did not accept
\* the character (POST /game/characters answered with a non-success status,
\* or the request itself failed, after the row was inserted), no row of that
\* character is left in the character table.  (The delete, where it is
\* issued, succeeds.)
C22_FailedCreateLeavesNoRecord ==
    (lastCreate.called /\ ~lastCreate.ok /\ lastCreate.at \in {"status", "post"})
        => ~HasRecord(lastCreate.id)

\* the half of C22 about a non-success status: the delete is issued
StatusFailureCleansUp ==
    (lastCreate.called /\ lastCreate.at = "status") => ~HasRecord(lastCreate.id)

\* C26: over any sequence of Roll Attributes submissions, successful or
\* failed, roll_count never exceeds 3 and equals the number of stored
\* attribute rolls (the two keys are present or absent together).
C26_RollCountMatchesRolls ==
    /\ (roll_count = NotGiven) <=> (attribute_rolls = NotGiven)
    /\ roll_count # NotGiven =>
           /\ roll_count[1] <= 3
           /\ roll_count[1] = Len(attribute_rolls[1])

\* C26 witness: Roll Attributes was submitted with three rolls stored, the
\* server was ready to answer with a fourth, and three rolls are stored.
C26_Witness ==
    /\ lastRoll.called
    /\ lastRoll.before = 3
    /\ lastRoll.ready
    /\ roll_count = Given(3)
    /\ Len(attribute_rolls[1]) = 3

====
